---- MODULE Spec2Model ----
(***************************************************************************)
(* Model of full_comprehensive_app.py: a Streamlit script that fetches a   *)
(* price series, fits a linear trend (predict_price_movement) and turns    *)
(* the projection into an options recommendation (analyze_options).        *)
(*                                                                         *)
(* Prices are Python floats in the program.  They are modelled as exact    *)
(* rationals n/d (kept in lowest terms), plus the three non-finite floats  *)
(* and Python's None, so that the comparisons of analyze_options are       *)
(* evaluated with IEEE semantics for NaN and the infinities and exactly    *)
(* for the finite values.                                                  *)
(***************************************************************************)
EXTENDS Integers, Sequences, FiniteSets, TLC

\* ------------------------------------------------------------------ bounds
MaxLen == 3
MaxPrice == 3
MaxDays == 3
AppMaxLen == 2
AppMaxPrice == 2

\* ------------------------------------------------------- float-like values
Abs(x) == IF x < 0 THEN -x ELSE x

RECURSIVE GCD(_, _)
GCD(a, b) == IF b = 0 THEN a ELSE GCD(b, a % b)

\* a finite float, as the rational n/d in lowest terms with d > 0
\* (d = 0 only arises from a fit on fewer than two points)
Fin(n, d) ==
  IF d = 0 THEN [k |-> "fin", n |-> n, d |-> 0]
  ELSE LET g == GCD(Abs(n), Abs(d))
           s == IF d < 0 THEN -1 ELSE 1
       IN [k |-> "fin", n |-> s * (n \div g), d |-> s * (d \div g)]

NaN == [k |-> "nan", n |-> 0, d |-> 1]
PInf == [k |-> "pinf", n |-> 0, d |-> 1]
NInf == [k |-> "ninf", n |-> 0, d |-> 1]
PyNone == [k |-> "none", n |-> 0, d |-> 1]

IsFinite(x) == x.k = "fin"
IsNumber(x) == x.k \in {"fin", "nan", "pinf", "ninf"}

\* x * (pn/pd) for a positive literal pn/pd, e.g. current_price * 1.05
Times(x, pn, pd) ==
  IF x.k = "fin" THEN Fin(x.n * pn, x.d * pd) ELSE x

\* x >= y, the comparison a non-strict threshold would use
Ge(x, y) ==
  CASE x.k = "nan" \/ y.k = "nan" -> FALSE
    [] x.k = "pinf" -> TRUE
    [] x.k = "ninf" -> y.k = "ninf"
    [] OTHER -> \/ y.k = "ninf"
                \/ (y.k = "fin" /\ x.n * y.d >= y.n * x.d)

\* Python's x > y on floats: False whenever a NaN is involved
Gt(x, y) ==
  CASE x.k = "nan" \/ y.k = "nan" -> FALSE
    [] x.k = "pinf" -> y.k # "pinf"
    [] x.k = "ninf" -> FALSE
    [] OTHER -> \/ y.k = "ninf"
                \/ (y.k = "fin" /\ x.n * y.d > y.n * x.d)

Lt(x, y) == Gt(y, x)

\* ------------------------------------------------------------- data frames
BaseColumns == {"Open", "High", "Low", "Close", "Volume"}

\* the frame yf.download returns for a series of closes
DataFrame(closes) ==
  [tag |-> "DataFrame", columns |-> BaseColumns, Close |-> closes, Days |-> <<>>]

None == [tag |-> "None", columns |-> {}, Close |-> <<>>, Days |-> <<>>]

\* np.arange(lo, hi) as a sequence
Arange(lo, hi) == [i \in 1..(IF hi > lo THEN hi - lo ELSE 0) |-> lo + i - 1]

RECURSIVE SumSeq(_)
SumSeq(s) == IF s = <<>> THEN 0 ELSE s[1] + SumSeq(Tail(s))

Dot(a, b) == SumSeq([i \in 1..Len(a) |-> a[i] * b[i]])

\* ------------------------------------------------ LinearRegression().fit
\* ordinary least squares of y on the single feature X, with intercept:
\*   coef_ = (n*Sxy - Sx*Sy) / (n*Sxx - Sx^2),
\*   intercept_ = mean(y) - coef_ * mean(X)
FitNoCentering(X, y) ==
  LET n == Len(X)
      cN == n * Dot(X, y)
      cD == n * Dot(X, X) - SumSeq(X) * SumSeq(X)
  IN [coefN |-> cN, coefD |-> cD,
      intN |-> SumSeq(y) * cD - cN * SumSeq(X), intD |-> n * cD]

Fit(X, y) ==
  LET n == Len(X)
      cN == n * Dot(X, y) - SumSeq(X) * SumSeq(y)
      cD == n * Dot(X, X) - SumSeq(X) * SumSeq(X)
  IN [coefN |-> cN, coefD |-> cD,
      intN |-> SumSeq(y) * cD - cN * SumSeq(X), intD |-> n * cD]

\* model.predict: coef_ * x + intercept_ for every x of the argument
Predict(model, xs) ==
  [i \in 1..Len(xs) |->
     Fin(model.coefN * xs[i] * model.intD + model.intN * model.coefD,
         model.coefD * model.intD)]

\* ------------------------------------------------- predict_price_movement
\* returns the pair and the frame as the call leaves it (data['Days'] = ...
\* assigns a column of the caller's frame in place)
PredictOffByOne(data, days) ==
  IF Len(data.Close) < 2
  THEN [current |-> PyNone, predicted |-> PyNone, data |-> data]
  ELSE LET n == Len(data.Close)
           data2 == [data EXCEPT !.columns = @ \cup {"Days"},
                                 !.Days = Arange(0, n)]
           model == Fit(data2.Days, data2.Close)
           future_days == Arange(n + 1, n + 1 + days)
           predictions == Predict(model, future_days)
       IN [current |-> Fin(data2.Close[n], 1),
           predicted |-> predictions[Len(predictions)],
           data |-> data2]

PredictShortGuard(data, days) ==
  IF Len(data.Close) < 1
  THEN [current |-> PyNone, predicted |-> PyNone, data |-> data]
  ELSE LET n == Len(data.Close)
           data2 == [data EXCEPT !.columns = @ \cup {"Days"},
                                 !.Days = Arange(0, n)]
           model == Fit(data2.Days, data2.Close)
           future_days == Arange(n, n + days)
           predictions == Predict(model, future_days)
       IN [current |-> Fin(data2.Close[n], 1),
           predicted |-> predictions[Len(predictions)],
           data |-> data2]

predict_price_movement(data, days) ==
  IF Len(data.Close) < 2
  THEN [current |-> PyNone, predicted |-> PyNone, data |-> data]
  ELSE LET n == Len(data.Close)
           data2 == [data EXCEPT !.columns = @ \cup {"Days"},
                                 !.Days = Arange(0, n)]
           model == Fit(data2.Days, data2.Close)
           future_days == Arange(n, n + days)
           predictions == Predict(model, future_days)
       IN [current |-> Fin(data2.Close[n], 1),
           predicted |-> predictions[Len(predictions)],
           data |-> data2]

\* --------------------------------------------------------- analyze_options
Categories == {"BUY_CALL", "BUY_PUT", "HOLD"}

\* the if/elif/else of the recommendation step; None * 1.05 raises TypeError
RecommendNonStrict(predicted_price, current_price) ==
  IF predicted_price.k = "none" \/ current_price.k = "none" THEN "TypeError"
  ELSE IF Ge(predicted_price, Times(current_price, 105, 100)) THEN "BUY_CALL"
  ELSE IF Ge(Times(current_price, 95, 100), predicted_price) THEN "BUY_PUT"
  ELSE "HOLD"

Recommend(predicted_price, current_price) ==
  IF predicted_price.k = "none" \/ current_price.k = "none" THEN "TypeError"
  ELSE IF Gt(predicted_price, Times(current_price, 105, 100)) THEN "BUY_CALL"
  ELSE IF Lt(predicted_price, Times(current_price, 95, 100)) THEN "BUY_PUT"
  ELSE "HOLD"

\* what yf.Ticker(...).options / option_chain can do
OptionsOutcomes == {"empty", "available", "raises"}

\* the sequence of Streamlit elements analyze_options emits
analyze_options(options, predicted_price, current_price) ==
  CASE options = "empty" -> <<"subheader", "error: No options data available">>
    [] options = "raises" -> <<"subheader", "selectbox", "error: Error analyzing options">>
    [] OTHER ->
        LET r == Recommend(predicted_price, current_price)
        IN <<"subheader", "selectbox", "calls", "puts">> \o
           (IF r = "TypeError" THEN <<"error: Error analyzing options">> ELSE <<r>>)

Range(s) == {s[i] : i \in DOMAIN s}
Emitted(out) == Range(out) \cap Categories

\* ------------------------------------------------------------ program state
VARIABLES
  selected_stock,   \* st.session_state.selected_stock
  stock_data,       \* st.session_state.stock_data
  fetched_for,      \* ticker whose download stock_data holds (history variable)
  cache,            \* st.cache_data store of fetch_stock_data, by arguments
  pc,               \* position of the script run: "idle", or "tab2" after tab 1
  lastFetch,        \* the fetch_stock_data call of the current run
  lastPredict,      \* the latest predict_price_movement call of the current run
  lastAnalyze,      \* the analyze_options call of the current run
  tab1Out,          \* elements the Stock Analysis tab wrote in the current run
  tab2Out,          \* elements the Options Analysis tab wrote in the current run
  fnPredict,        \* a direct call of predict_price_movement and its result
  fnAnalyze         \* a direct call of analyze_options and its result

appVars == <<selected_stock, stock_data, fetched_for, cache, pc, lastFetch,
             lastPredict, lastAnalyze, tab1Out, tab2Out>>
fnVars == <<fnPredict, fnAnalyze>>
vars == <<selected_stock, stock_data, fetched_for, cache, pc, lastFetch,
          lastPredict, lastAnalyze, tab1Out, tab2Out, fnPredict, fnAnalyze>>

\* days=7, the default both callers rely on
DefaultDays == 7

NoTicker == "None"
\* two of top_50_stocks
Tickers == {"AAPL", "MSFT"}
\* the (start_date, end_date) of the two date_input widgets, at their defaults
DateRanges == {<<"2022-01-01", "2024-01-01">>}

RECURSIVE SeqsUpTo(_, _)
SeqsUpTo(S, n) ==
  IF n = 0 THEN {<<>>}
  ELSE LET shorter == SeqsUpTo(S, n - 1)
       IN shorter \cup {Append(s, x) : s \in {t \in shorter : Len(t) = n - 1}, x \in S}

\* what yf.download can do: raise, or return a frame (possibly empty)
Raised == [tag |-> "Exception", columns |-> {}, Close |-> <<>>, Days |-> <<>>]
Downloads == {Raised} \cup {DataFrame(s) : s \in SeqsUpTo(1..AppMaxPrice, AppMaxLen)}

Miss == [tag |-> "Miss", columns |-> {}, Close |-> <<>>, Days |-> <<>>]

NoCall == [called |-> FALSE]

\* body of fetch_stock_data: the try/except and the .empty test
FetchBodyKeepsEmpty(download) ==
  IF download.tag = "Exception" THEN None ELSE download

FetchBody(download) ==
  IF download.tag = "Exception" THEN None
  ELSE IF download.Close = <<>> THEN None
  ELSE download

\* fetch_stock_data under @st.cache_data: a stored result is returned as a
\* copy without running the body; otherwise the body runs and its result is
\* stored
fetch_stock_data(store, ticker, range, download) ==
  LET key == <<ticker, range>>
  IN IF store[key] # Miss
     THEN [ret |-> store[key], store |-> store, hit |-> TRUE]
     ELSE LET r == FetchBody(download)
          IN [ret |-> r, store |-> [store EXCEPT ![key] = r], hit |-> FALSE]

Init ==
  /\ selected_stock = NoTicker
  /\ stock_data = None
  /\ fetched_for = NoTicker
  /\ cache = [key \in Tickers \X DateRanges |-> Miss]
  /\ pc = "idle"
  /\ lastFetch = NoCall
  /\ lastPredict = NoCall
  /\ lastAnalyze = NoCall
  /\ tab1Out = <<>>
  /\ tab2Out = <<>>
  /\ fnPredict = NoCall
  /\ fnAnalyze = NoCall

\* lines 125-134: the body of `if st.button("Analyze Stock")`, where
\* yf.download would answer `download` if the cached function ran its body
AnalyzeStockBody(ticker, range, download) ==
  LET f == fetch_stock_data(cache, ticker, range, download)
      p == predict_price_movement(f.ret, DefaultDays)
  IN /\ selected_stock' = ticker
     /\ cache' = f.store
     /\ lastFetch' = [called |-> TRUE, ticker |-> ticker, hit |-> f.hit,
                      download |-> download, ret |-> f.ret]
     /\ IF f.ret # None
        THEN /\ stock_data' = p.data
             /\ fetched_for' = ticker
             /\ lastPredict' = [called |-> TRUE, tab |-> 1, arg |-> f.ret,
                                after |-> p.data, current |-> p.current,
                                predicted |-> p.predicted]
             /\ tab1Out' = <<"write: Stock Data", "candlestick chart">> \o
                  (IF p.current # PyNone /\ p.predicted # PyNone
                   THEN <<"write: Current Price", "write: Predicted Price">>
                   ELSE <<>>)
        ELSE /\ UNCHANGED <<stock_data, fetched_for>>
             /\ lastPredict' = NoCall
             /\ tab1Out' = <<"error: fetch">>

\* Tab 1 of a run started by the "Analyze Stock" button
AnalyzeStock ==
  /\ pc = "idle"
  /\ \E ticker \in Tickers, range \in DateRanges :
       IF cache[<<ticker, range>>] # Miss
       THEN AnalyzeStockBody(ticker, range, Miss)
       ELSE \E download \in Downloads : AnalyzeStockBody(ticker, range, download)
  /\ lastAnalyze' = NoCall
  /\ tab2Out' = <<>>
  /\ pc' = "tab2"
  /\ UNCHANGED fnVars

\* Tab 1 of a run started by any other widget (button not pressed)
Rerun ==
  /\ pc = "idle"
  /\ lastFetch' = NoCall
  /\ lastPredict' = NoCall
  /\ lastAnalyze' = NoCall
  /\ tab1Out' = <<>>
  /\ tab2Out' = <<>>
  /\ pc' = "tab2"
  /\ UNCHANGED <<selected_stock, stock_data, fetched_for, cache>>
  /\ UNCHANGED fnVars

\* Tab 2 of the run: the Options Analysis tab
OptionsTab ==
  /\ pc = "tab2"
  /\ IF selected_stock # NoTicker
     THEN IF stock_data # None
          THEN LET p == predict_price_movement(stock_data, DefaultDays)
               IN /\ stock_data' = p.data
                  /\ lastPredict' = [called |-> TRUE, tab |-> 2, arg |-> stock_data,
                                     after |-> p.data, current |-> p.current,
                                     predicted |-> p.predicted]
                  /\ \E options \in OptionsOutcomes :
                       /\ lastAnalyze' = [called |-> TRUE, ticker |-> selected_stock,
                                          options |-> options,
                                          predicted |-> p.predicted,
                                          current |-> p.current]
                       /\ tab2Out' = <<"write: Fetching options">> \o
                            analyze_options(options, p.predicted, p.current)
          ELSE /\ tab2Out' = <<"write: Fetching options">>
               /\ UNCHANGED <<stock_data, lastPredict, lastAnalyze>>
     ELSE /\ tab2Out' = <<"info: Select a stock first">>
          /\ UNCHANGED <<stock_data, lastPredict, lastAnalyze>>
  /\ pc' = "idle"
  /\ UNCHANGED <<selected_stock, fetched_for, cache, lastFetch, tab1Out>>
  /\ UNCHANGED fnVars

Next == AnalyzeStock \/ Rerun \/ OptionsTab

Spec == Init /\ [][Next]_vars

\* ------------------------------------------- the two functions on their own
\* inputs of predict_price_movement: frames of 0..MaxLen closes, the two
\* series of the documented scenarios, and horizons 1..MaxDays and the default
FnFrames ==
  {DataFrame(s) : s \in SeqsUpTo(0..MaxPrice, MaxLen)}
    \cup {DataFrame(<<10, 12, 14, 16, 18, 20>>), DataFrame(<<50, 50, 50, 50>>)}
FnDays == (1..MaxDays) \cup {DefaultDays}

\* inputs of analyze_options: current prices are closes (integers here),
\* predicted prices also include the documented boundary values
NonFinite == {NaN, PInf, NInf}
FnCurrent ==
  {Fin(n, 1) : n \in (0..MaxPrice) \cup {100}} \cup NonFinite \cup {PyNone}
FnPredicted ==
  {Fin(n, 1) : n \in ((0 - MaxPrice)..MaxPrice) \cup {95, 100, 105}}
    \cup {Fin(1050001, 10000), Fin(949999, 10000)} \cup NonFinite \cup {PyNone}

\* predict_price_movement(data, days)
FnPredict ==
  /\ fnPredict = NoCall /\ fnAnalyze = NoCall
  /\ \E data \in FnFrames, days \in FnDays :
       LET p == predict_price_movement(data, days)
       IN fnPredict' = [called |-> TRUE, data |-> data, days |-> days,
                        after |-> p.data, current |-> p.current,
                        predicted |-> p.predicted]
  /\ fnAnalyze' = NoCall
  /\ UNCHANGED appVars

\* analyze_options(stock, predicted_price, current_price) on given prices
FnAnalyze ==
  /\ fnPredict = NoCall /\ fnAnalyze = NoCall
  /\ \E options \in OptionsOutcomes, predicted \in FnPredicted, current \in FnCurrent :
       fnAnalyze' = [called |-> TRUE, src |-> "given", options |-> options,
                     predicted |-> predicted, current |-> current,
                     out |-> analyze_options(options, predicted, current)]
  /\ fnPredict' = NoCall
  /\ UNCHANGED appVars

\* analyze_options on the pair the preceding predict_price_movement returned
FnAnalyzePredicted ==
  /\ fnPredict # NoCall
  /\ fnAnalyze = NoCall
  /\ \E options \in OptionsOutcomes :
       fnAnalyze' = [called |-> TRUE, src |-> "predicted", options |-> options,
                     predicted |-> fnPredict.predicted, current |-> fnPredict.current,
                     out |-> analyze_options(options, fnPredict.predicted,
                                             fnPredict.current)]
  /\ UNCHANGED fnPredict
  /\ UNCHANGED appVars

NextFn == FnPredict \/ FnAnalyze \/ FnAnalyzePredicted

SpecFn == Init /\ [][NextFn]_vars

\* ------------------------------------------------------------------ claims
ErrNoOptions == "error: No options data available"
ErrAnalyzing == "error: Error analyzing options"

\* a call of analyze_options on two finite prices that reached the
\* recommendation step
ClassifiedFinite ==
  /\ fnAnalyze # NoCall
  /\ fnAnalyze.options = "available"
  /\ IsFinite(fnAnalyze.current) /\ IsFinite(fnAnalyze.predicted)

\* projectedPrice > currentPrice * 1.05 and projectedPrice < currentPrice * 0.95,
\* cross-multiplied
AboveUp(cur, pred) == pred.n * 100 * cur.d > cur.n * 105 * pred.d
BelowDown(cur, pred) == pred.n * 100 * cur.d < cur.n * 95 * pred.d

\* C1: on finite prices the recommendation step emits exactly one category:
\* BUY_CALL iff projected > current * 1.05, BUY_PUT iff not that and
\* projected < current * 0.95, HOLD otherwise; with current = 100 a projected
\* price of exactly 105 or exactly 95 gives HOLD.
C1_ExactlyOneCategory ==
  ClassifiedFinite =>
    LET cur == fnAnalyze.current
        pred == fnAnalyze.predicted
        e == Emitted(fnAnalyze.out)
    IN /\ Cardinality(e) = 1
       /\ ("BUY_CALL" \in e) <=> AboveUp(cur, pred)
       /\ ("BUY_PUT" \in e) <=> (~AboveUp(cur, pred) /\ BelowDown(cur, pred))
       /\ ("HOLD" \in e) <=> (~AboveUp(cur, pred) /\ ~BelowDown(cur, pred))
       /\ (cur = Fin(100, 1) /\ pred \in {Fin(105, 1), Fin(95, 1)}) => e = {"HOLD"}

C1_Witness ==
  /\ ClassifiedFinite
  /\ fnAnalyze.current = Fin(100, 1)
  /\ fnAnalyze.predicted = Fin(105, 1)
  /\ Emitted(fnAnalyze.out) = {"HOLD"}

\* C2: with no options data, analyze_options still emits the category it
\* emits for the same prices when options data is available, and reports
\* that options data is unavailable.
C2_CategoryWithoutOptions ==
  (/\ fnAnalyze # NoCall
   /\ fnAnalyze.options = "empty"
   /\ IsFinite(fnAnalyze.current) /\ IsFinite(fnAnalyze.predicted))
  => /\ ErrNoOptions \in Range(fnAnalyze.out)
     /\ Cardinality(Emitted(fnAnalyze.out)) = 1
     /\ Emitted(fnAnalyze.out) =
          Emitted(analyze_options("available", fnAnalyze.predicted, fnAnalyze.current))

\* C3: predict_price_movement returns (None, None) for a series of length 0
\* or 1, whatever the horizon, and a pair of numbers for length >= 2.
C3_AbsentIffShort ==
  fnPredict # NoCall =>
    IF Len(fnPredict.data.Close) < 2
    THEN fnPredict.current = PyNone /\ fnPredict.predicted = PyNone
    ELSE /\ IsFinite(fnPredict.current) /\ fnPredict.current.d # 0
         /\ IsFinite(fnPredict.predicted) /\ fnPredict.predicted.d # 0

C3_Witness ==
  /\ fnPredict # NoCall
  /\ Len(fnPredict.data.Close) = 1
  /\ fnPredict.days = DefaultDays
  /\ fnPredict.current = PyNone /\ fnPredict.predicted = PyNone

\* C4: analyze_options is invoked only with a numeric pair: with a stored
\* series of fewer than 2 points the Options tab does not call it, compares
\* nothing, and the outcome is neither HOLD nor the generic options error.
C4_ClassifyOnlyAfterProjection ==
  /\ lastAnalyze # NoCall =>
       IsNumber(lastAnalyze.current) /\ IsNumber(lastAnalyze.predicted)
  /\ (pc = "idle" /\ stock_data # None /\ Len(stock_data.Close) < 2) =>
       /\ lastAnalyze = NoCall
       /\ ErrAnalyzing \notin Range(tab2Out)
       /\ Emitted(tab2Out) = {}

\* close[i] = a*i + b for i = 0..n-1, with a = close[1] - close[0], b = close[0]
IsLinear(c) == \A i \in 1..Len(c) : c[i] = c[1] + (i - 1) * (c[2] - c[1])
IsConstant(c) == \A i \in 1..Len(c) : c[i] = c[1]

Scenario == <<10, 12, 14, 16, 18, 20>>

\* C5: for a linear series of length n >= 2 and horizon h >= 1 the projected
\* price is a*(n+h-1)+b and the current price is the last close; closes
\* 10,12,..,20 with horizon 7 give 34 and 20, classified BUY_CALL.
C5_LinearProjection ==
  (fnPredict # NoCall /\ Len(fnPredict.data.Close) >= 2
     /\ IsLinear(fnPredict.data.Close)) =>
    LET c == fnPredict.data.Close
        n == Len(c)
        a == c[2] - c[1]
        b == c[1]
    IN /\ fnPredict.predicted = Fin(a * (n + fnPredict.days - 1) + b, 1)
       /\ fnPredict.current = Fin(c[n], 1)
       /\ (c = Scenario /\ fnPredict.days = 7) =>
            /\ fnPredict.predicted = Fin(34, 1)
            /\ fnPredict.current = Fin(20, 1)
            /\ (fnAnalyze # NoCall /\ fnAnalyze.options = "available") =>
                 Emitted(fnAnalyze.out) = {"BUY_CALL"}

C5_Witness ==
  /\ fnPredict # NoCall
  /\ fnPredict.data.Close = Scenario
  /\ fnPredict.days = 7
  /\ fnPredict.predicted = Fin(34, 1)
  /\ fnAnalyze # NoCall
  /\ fnAnalyze.src = "predicted"
  /\ Emitted(fnAnalyze.out) = {"BUY_CALL"}

C7_NonFiniteFails ==
  (/\ fnAnalyze # NoCall
   /\ fnAnalyze.options = "available"
   /\ fnAnalyze.current \in NonFinite \/ fnAnalyze.predicted \in NonFinite)
  => /\ Emitted(fnAnalyze.out) = {}
     /\ ErrAnalyzing \in Range(fnAnalyze.out)

\* C8: predict_price_movement leaves the frame it is given, the one in
\* st.session_state.stock_data included, with the same columns and values.
C8_InputUnchanged ==
  lastPredict # NoCall =>
    /\ lastPredict.after = lastPredict.arg
    /\ lastPredict.after.columns = BaseColumns

\* C9: predict_price_movement is never called with None or an empty series:
\* a failed or empty download comes back from fetch_stock_data as None, and
\* st.session_state.stock_data is never an empty frame.
C9_NeverAbsentOrEmpty ==
  /\ lastPredict # NoCall =>
       /\ lastPredict.arg # None
       /\ lastPredict.arg.tag = "DataFrame"
       /\ Len(lastPredict.arg.Close) > 0
  /\ (lastFetch # NoCall /\ ~lastFetch.hit
        /\ (lastFetch.download = Raised \/ lastFetch.download.Close = <<>>)) =>
       lastFetch.ret = None
  /\ stock_data # None =>
       stock_data.tag = "DataFrame" /\ Len(stock_data.Close) > 0
  /\ \A key \in DOMAIN cache :
       cache[key] \notin {Miss, None} =>
         cache[key].tag = "DataFrame" /\ Len(cache[key].Close) > 0

\* a failed fetch for one ticker after a successful one for another, and
\* the Options tab of that run calling the extrapolator
C9_Witness ==
  /\ pc = "idle"
  /\ lastFetch # NoCall
  /\ lastFetch.ret = None
  /\ lastPredict # NoCall
  /\ lastPredict.tab = 2

\* C10: whenever st.session_state.stock_data is not None it is the series
\* fetched for the ticker in st.session_state.selected_stock.
C10_DataMatchesSelection ==
  stock_data # None => fetched_for = selected_stock

====
